---- MODULE Spec2Model ----
(***************************************************************************)
(* Model of the book-collection manager: the BookLibrary component         *)
(* (src/unnamed/part_000): its React state, its two mount effects, its     *)
(* handlers, the localStorage slot "books" and the derived views.          *)
(*                                                                         *)
(* Encoding of JavaScript values:                                          *)
(*  - a text the code searches in (title, author, searchTerm) and an id    *)
(*    are sequences of one-character strings; other texts (genre, status,  *)
(*    description) are only copied and compared and stay TLA+ strings;     *)
(*  - an object is a function from its own property keys; the value        *)
(*    undefined is Undefined (<<>>) and a rating n is <<n>>;               *)
(*  - a "YYYY-MM-DD" date text is its day number since 1970-01-01;         *)
(*  - the slot is <<>> when the key is absent (getItem gives null) and     *)
(*    <<text>> otherwise, a JSON text being [kind |-> "json", val |-> ..]. *)
(***************************************************************************)
EXTENDS Integers, Sequences, FiniteSets, TLC

VARIABLES
    books,             \* useState<Book[]>: the in-memory collection
    storage,           \* localStorage slot "books"
    effects,           \* passive effects committed and not yet run, in order
    formData,          \* useState: the draft of the add / edit dialog
    editingBook,       \* useState<Book | null>: <<>> or <<book>>
    isAddDialogOpen,   \* useState(false)
    isEditDialogOpen,  \* useState(false)
    searchTerm,        \* useState("")
    filterGenre,       \* useState("Fiction")
    filterStatus,      \* useState("to-read")
    lastOp,            \* history: the last store operation that was called
    events,            \* history: how many events the handlers have handled
    uncaught           \* the error an effect threw and nothing caught: <<>>
                       \* or <<name>>; React then unmounts the whole tree

vars == <<books, storage, effects, formData, editingBook, isAddDialogOpen,
          isEditDialogOpen, searchTerm, filterGenre, filterStatus, lastOp, events,
          uncaught>>

ui == <<formData, editingBook, isAddDialogOpen, isEditDialogOpen>>
query == <<searchTerm, filterGenre, filterStatus>>

----------------------------------------------------------------------------
(* Bounds *)

\* a run handles at most MaxEvents events (clicks, inputs, reloads)
MaxEvents == 8
\* the snapshots the view is derived from hold at most MaxView records
MaxView == 2
\* the list of the minimal variant grows to at most MaxPage books
MaxPage == 3

----------------------------------------------------------------------------
(* JavaScript values *)

Undefined == <<>>

\* Number.prototype.toString for a non-negative integer: its decimal digits
Digit(d) == <<"0", "1", "2", "3", "4", "5", "6", "7", "8", "9">>[d + 1]

RECURSIVE NumToString(_)
NumToString(n) ==
    IF n < 10 THEN <<Digit(n)>>
    ELSE Append(NumToString(n \div 10), Digit(n % 10))

UpperCase == <<"A","B","C","D","E","F","G","H","I","J","K","L","M",
               "N","O","P","Q","R","S","T","U","V","W","X","Y","Z">>
LowerCase == <<"a","b","c","d","e","f","g","h","i","j","k","l","m",
               "n","o","p","q","r","s","t","u","v","w","x","y","z">>

\* String.prototype.toLowerCase, character by character
toLowerCase(s) ==
    [i \in 1..Len(s) |->
        IF \E k \in 1..26 : UpperCase[k] = s[i]
        THEN LowerCase[CHOOSE k \in 1..26 : UpperCase[k] = s[i]]
        ELSE s[i]]

\* String.prototype.includes: sub occurs in s as a contiguous run
includes(s, sub) ==
    \E i \in 0..(Len(s) - Len(sub)) : SubSeq(s, i + 1, i + Len(sub)) = sub

----------------------------------------------------------------------------
(* The clock.  Date.now() is an input: every read of the clock draws one   *)
(* of the readings below (milliseconds since the epoch, kept small).  Two  *)
(* reads may give the same value: the clock has millisecond resolution,    *)
(* can be frozen by a test harness and can be set back.                    *)

Clock == {3, 4}

\* new Date().toISOString().split("T")[0]: the UTC day of the reading
ISODate(t) == t \div 86400000

\* new Date().getFullYear(); exact for readings within 1970 and 1971
getFullYear(t) == 1970 + (t \div 86400000) \div 365

----------------------------------------------------------------------------
(* The data model *)

\* interface Book
BookFields == {"id", "title", "author", "genre", "year", "description",
               "status", "rating", "dateAdded"}

\* the keys of formData: the mutable fields of a record
FormFields == {"title", "author", "genre", "year", "description",
               "status", "rating"}

genres == <<"Fiction", "Non-Fiction", "Mystery", "Romance", "Science Fiction",
            "Fantasy", "Biography", "History", "Self-Help", "Technology">>

statuses == <<"to-read", "reading", "read">>

\* reading property k of object b: undefined when b has no such property
Get(b, k) == IF k \in DOMAIN b THEN b[k] ELSE Undefined

sampleBooks ==
    << [id |-> <<"1">>,
        title |-> <<"T","h","e"," ","G","r","e","a","t"," ",
                    "G","a","t","s","b","y">>,
        author |-> <<"F","."," ","S","c","o","t","t"," ",
                     "F","i","t","z","g","e","r","a","l","d">>,
        genre |-> "Fiction",
        year |-> 1925,
        description |-> "A classic American novel set in the Jazz Age.",
        status |-> "read",
        rating |-> <<5>>,
        dateAdded |-> 19737],              \* "2024-01-15"
       [id |-> <<"2">>,
        title |-> <<"D","u","n","e">>,
        author |-> <<"F","r","a","n","k"," ","H","e","r","b","e","r","t">>,
        genre |-> "Science Fiction",
        year |-> 1965,
        description |->
            "Epic science fiction novel about desert planet Arrakis.",
        status |-> "reading",
        dateAdded |-> 19754] >>            \* "2024-02-01"

\* resetForm, and the initial value of formData
resetForm(t) ==
    [title |-> <<>>, author |-> <<>>, genre |-> "", year |-> getFullYear(t),
     description |-> "", status |-> "to-read", rating |-> Undefined]

\* mutant: the guard looks at the title alone
DraftRejectedTitleOnly(fd) == fd.title = <<>>

\* mutant: the guard forgets the genre
DraftRejectedNoGenre(fd) == fd.title = <<>> \/ fd.author = <<>>

\* the guard of handleAddBook and handleEditBook on the draft
DraftRejected(fd) == fd.title = <<>> \/ fd.author = <<>> \/ fd.genre = ""

\* object spread { ...a, ...b }: the properties of both, b's winning
Spread(a, b) ==
    [k \in DOMAIN a \cup DOMAIN b |-> IF k \in DOMAIN b THEN b[k] ELSE a[k]]

----------------------------------------------------------------------------
(* JSON and the durable slot *)

\* mutant: the rating is never written
StringifyObjectNoRating(b) == [k \in DOMAIN b \ {"rating"} |-> b[k]]

\* JSON.stringify of one object: a property whose value is undefined is
\* left out (rating is the only property whose type admits undefined)
StringifyObject(b) ==
    [k \in {j \in DOMAIN b : ~(j = "rating" /\ b[j] = Undefined)} |-> b[k]]

\* mutant: a delta is stored, the last record alone
JSONstringifyDelta(bs) ==
    [kind |-> "json",
     val |-> IF bs = <<>> THEN <<>> ELSE <<StringifyObject(bs[Len(bs)])>>]

\* JSON.stringify(books): the text of the array, element by element
JSONstringify(bs) ==
    [kind |-> "json", val |-> [i \in 1..Len(bs) |-> StringifyObject(bs[i])]]

\* JSON.parse of a JSON text
JSONparse(text) == text.val

\* JSON.parse throws a SyntaxError on a text that is not JSON
Throws(text) == text.kind = "corrupt"

\* a text that is not JSON, as a damaged write or another program leaves it
CorruptText == [kind |-> "corrupt", val |-> <<>>]

\* localStorage.getItem("books"), as tested by `if (savedBooks)`:
\* null and the empty text are falsy
Truthy(slot) == slot # <<>> /\ slot[1].kind # "empty"

\* the passive effects of a commit
LoadStep == [kind |-> "load", snap |-> <<>>]

\* setBooks(bs) called from an effect: the update is queued, and React
\* renders again with it once the effects of the commit have run
RenderStep(bs) == [kind |-> "render", snap |-> bs]
\* mutant: the save step writes the collection of the render before
SaveStepStale(bs) == [kind |-> "save", snap |-> books]

SaveStep(bs) == [kind |-> "save", snap |-> bs]

\* the record kept in lastOp
Op(op, ok, id, rep, mem, slot) ==
    [op |-> op, ok |-> ok, id |-> id, rep |-> rep, ret |-> "undefined",
     mem |-> mem, slot |-> slot]

----------------------------------------------------------------------------
(* Inputs: what the user types or selects, and what the slot holds when    *)
(* the page is first opened.                                               *)

TitleInputs == {<<>>, <<"a", "B">>}
AuthorInputs == {<<>>, <<"b">>}
GenreInputs == {genres[1]}
StatusInputs == {statuses[3]}
RatingInputs == {<<>>}
YearInputs == {<<>>}
DescriptionInputs == {""}

\* Number.parseInt of a text of decimal digits; <<>> stands for NaN
RECURSIVE parseInt(_)
parseInt(s) ==
    IF s = <<>> THEN <<>>
    ELSE LET d == (CHOOSE k \in 1..10 : Digit(k - 1) = s[Len(s)]) - 1
             front == SubSeq(s, 1, Len(s) - 1)
         IN  IF front = <<>> THEN <<d>> ELSE <<10 * parseInt(front)[1] + d>>

\* a record an earlier session added and saved (no rating chosen)
SavedBook ==
    StringifyObject(
        Spread([id |-> NumToString(3)],
               Spread([resetForm(3) EXCEPT !.title = <<"a", "B">>,
                                           !.author = <<"b">>,
                                           !.genre = genres[1]],
                      [dateAdded |-> ISODate(3)])))

InitialSlots ==
    {<<>>, <<JSONstringify(<<>>)>>, <<JSONstringify(<<SavedBook>>)>>,
     <<CorruptText>>}

----------------------------------------------------------------------------
(* The state after construction: the first render has used the initial     *)
(* values of every useState; the two effects of the mount are committed    *)
(* and not yet run, the save effect closing over the initial books = [].   *)

Init ==
    /\ books = <<>>
    /\ storage \in InitialSlots
    /\ effects = <<LoadStep, SaveStep(<<>>)>>
    /\ \E t \in Clock : formData = resetForm(t)
    /\ editingBook = <<>>
    /\ isAddDialogOpen = FALSE
    /\ isEditDialogOpen = FALSE
    /\ searchTerm = <<>>
    /\ filterGenre = "Fiction"
    /\ filterStatus = "to-read"
    /\ events = 0
    /\ uncaught = <<>>
    /\ lastOp = Op("mount", TRUE, <<>>, 0, <<>>, storage)

----------------------------------------------------------------------------
(* Effects.  A setBooks call made by an effect is queued: React renders    *)
(* again after the effects already committed have run, books has the new   *)
(* value from that render on, and the new render commits the save effect   *)
(* again ([books] has changed: every setBooks here passes a new array).    *)

\* mutant: the seed is stored but never set as the collection
LoadEffectSeedNotSet ==
    /\ effects # <<>>
    /\ Head(effects).kind = "load"
    /\ IF Truthy(storage)
       THEN IF Throws(storage[1])
            THEN /\ uncaught' = <<"SyntaxError">>
                 /\ effects' = <<>>
                 /\ UNCHANGED <<books, storage>>
            ELSE /\ effects' = Append(Tail(effects),
                                      RenderStep(JSONparse(storage[1])))
                 /\ UNCHANGED <<books, storage, uncaught>>
       ELSE /\ effects' = Tail(effects)
            /\ storage' = <<JSONstringify(sampleBooks)>>
            /\ UNCHANGED <<books, uncaught>>
    /\ UNCHANGED <<ui, query, lastOp, events>>

\* useEffect(() => { ... }, []): load books from localStorage on mount.
\* JSON.parse is called outside any try: what it throws leaves the effect,
\* React drops the effects of the component that were still to run (the
\* save effect of the mount among them) and, no error boundary being
\* there, unmounts the tree.
LoadEffect ==
    /\ effects # <<>>
    /\ Head(effects).kind = "load"
    /\ IF Truthy(storage)
       THEN IF Throws(storage[1])
            THEN /\ uncaught' = <<"SyntaxError">>
                 /\ effects' = <<>>
                 /\ UNCHANGED <<books, storage>>
            ELSE /\ effects' = Append(Tail(effects),
                                      RenderStep(JSONparse(storage[1])))
                 /\ UNCHANGED <<books, storage, uncaught>>
       ELSE /\ storage' = <<JSONstringify(sampleBooks)>>
            /\ effects' = Append(Tail(effects), RenderStep(sampleBooks))
            /\ UNCHANGED <<books, uncaught>>
    /\ UNCHANGED <<ui, query, lastOp, events>>

\* the render React makes for the setBooks of the load effect: books takes
\* the queued value and the save effect is committed again
Rerender ==
    /\ effects # <<>>
    /\ Head(effects).kind = "render"
    /\ books' = Head(effects).snap
    /\ effects' = Append(Tail(effects), SaveStep(books'))
    /\ UNCHANGED <<storage, ui, query, uncaught, lastOp, events>>

\* useEffect(() => { localStorage.setItem(...) }, [books])
SaveEffect ==
    /\ effects # <<>>
    /\ Head(effects).kind = "save"
    /\ storage' = <<JSONstringify(Head(effects).snap)>>
    /\ effects' = Tail(effects)
    /\ UNCHANGED <<books, ui, query, uncaught, lastOp, events>>

----------------------------------------------------------------------------
(* Handlers.  An event is handled when no effect is pending: React runs    *)
(* the effects of a commit before it handles the next discrete event.      *)
(* A handler is called from the control that carries it: the submit        *)
(* buttons and the inputs live in their dialog, and the dialogs are modal, *)
(* so the page behind an open dialog takes no click.  The submit handlers  *)
(* are called with whatever the draft holds: their own guard, not the      *)
(* disabled attribute of the button, is what is modelled.  An unmounted    *)
(* tree has no control left to click.                                      *)

Mounted == uncaught = <<>>

Idle == Mounted /\ effects = <<>> /\ events < MaxEvents /\ events' = events + 1

\* the "Add Book" trigger: onClick={resetForm}, and the dialog opens
OpenAddDialog(t) ==
    /\ Idle
    /\ ~isAddDialogOpen /\ ~isEditDialogOpen
    /\ formData' = resetForm(t)
    /\ isAddDialogOpen' = TRUE
    /\ UNCHANGED <<books, storage, effects, editingBook, isEditDialogOpen,
                   query, uncaught, lastOp>>

\* Cancel of the add dialog: setIsAddDialogOpen(false)
CancelAddDialog ==
    /\ Idle
    /\ isAddDialogOpen
    /\ isAddDialogOpen' = FALSE
    /\ UNCHANGED <<books, storage, effects, formData, editingBook,
                   isEditDialogOpen, query, uncaught, lastOp>>

\* Cancel of the edit dialog: setIsEditDialogOpen(false)
CancelEditDialog ==
    /\ Idle
    /\ isEditDialogOpen
    /\ isEditDialogOpen' = FALSE
    /\ UNCHANGED <<books, storage, effects, formData, editingBook,
                   isAddDialogOpen, query, uncaught, lastOp>>

\* openEditDialog(book), from the card of a record of the collection
openEditDialog(i) ==
    /\ Idle
    /\ ~isAddDialogOpen /\ ~isEditDialogOpen
    /\ i \in 1..Len(books)
    /\ editingBook' = <<books[i]>>
    /\ formData' = [k \in FormFields |-> Get(books[i], k)]
    /\ isEditDialogOpen' = TRUE
    /\ UNCHANGED <<books, storage, effects, isAddDialogOpen, query, uncaught,
                   lastOp>>

\* mutant: a change of the draft of the edit dialog is written through to
\* the record being edited
SetDraftWriteThrough(fd) ==
    /\ Idle
    /\ isAddDialogOpen \/ isEditDialogOpen
    /\ formData' = fd
    /\ IF isEditDialogOpen /\ editingBook # <<>>
       THEN /\ books' = [i \in 1..Len(books) |->
                            IF books[i].id = editingBook[1].id
                            THEN Spread(books[i], fd) ELSE books[i]]
            /\ effects' = <<SaveStep(books')>>
       ELSE UNCHANGED <<books, effects>>
    /\ UNCHANGED <<storage, editingBook, isAddDialogOpen,
                   isEditDialogOpen, query, uncaught, lastOp>>

\* the onChange of one input of the open dialog
SetDraft(fd) ==
    /\ Idle
    /\ isAddDialogOpen \/ isEditDialogOpen
    /\ formData' = fd
    /\ UNCHANGED <<books, storage, effects, editingBook, isAddDialogOpen,
                   isEditDialogOpen, query, uncaught, lastOp>>

ChangeTitle(v) == SetDraft([formData EXCEPT !.title = v])
ChangeAuthor(v) == SetDraft([formData EXCEPT !.author = v])
ChangeGenre(v) == SetDraft([formData EXCEPT !.genre = v])
ChangeStatus(v) == SetDraft([formData EXCEPT !.status = v])
ChangeDescription(v) == SetDraft([formData EXCEPT !.description = v])

\* year: Number.parseInt(e.target.value) || new Date().getFullYear()
ChangeYear(v, t) ==
    SetDraft([formData EXCEPT !.year =
        IF parseInt(v) = <<>> \/ parseInt(v) = <<0>>
        THEN getFullYear(t) ELSE parseInt(v)[1]])

\* rating: value ? Number.parseInt(value) : undefined
ChangeRating(v) ==
    SetDraft([formData EXCEPT !.rating =
        IF v # <<>> THEN parseInt(v) ELSE Undefined])

----------------------------------------------------------------------------
(* The store operations *)

\* newBook of handleAddBook: { id: Date.now().toString(), ...formData,
\*                             dateAdded: <the ISO date of now> }
newBook(fd, t) ==
    Spread(Spread([id |-> NumToString(t)], fd), [dateAdded |-> ISODate(t)])

\* mutant: the new record is put first
AppendBookFirst(prev, b) == <<b>> \o prev

\* (prev) => [...prev, newBook]
AppendBook(prev, b) == Append(prev, b)

\* mutant: a target that is not in the collection is added to it
MapEditUpsert(prev, target, fd) ==
    IF \E i \in 1..Len(prev) : prev[i].id = target.id
    THEN [i \in 1..Len(prev) |->
             IF prev[i].id = target.id THEN Spread(prev[i], fd) ELSE prev[i]]
    ELSE Append(prev, Spread(target, fd))

\* (prev) => prev.map((book) =>
\*     book.id === editingBook.id ? { ...book, ...formData } : book)
MapEdit(prev, target, fd) ==
    [i \in 1..Len(prev) |->
        IF prev[i].id = target.id THEN Spread(prev[i], fd) ELSE prev[i]]

\* mutant: prev.splice(prev.findIndex(...), 1), which takes the last
\* record away when no record has the id
FilterOutSplice(prev, id) ==
    LET found == {i \in 1..Len(prev) : prev[i].id = id}
        at == IF found = {} THEN Len(prev)
              ELSE CHOOSE i \in found : \A j \in found : i <= j
    IN  [i \in 1..(IF prev = <<>> THEN 0 ELSE Len(prev) - 1) |->
            IF i < at THEN prev[i] ELSE prev[i + 1]]

\* (prev) => prev.filter((book) => book.id !== id)
FilterOut(prev, id) == SelectSeq(prev, LAMBDA book : book.id # id)

handleAddBook(t) ==
    /\ Idle
    /\ isAddDialogOpen
    /\ IF DraftRejected(formData)
       THEN /\ lastOp' = Op("add", FALSE, <<>>, 0, <<>>, <<>>)
            /\ UNCHANGED <<books, storage, effects, ui, query, uncaught>>
       ELSE /\ books' = AppendBook(books, newBook(formData, t))
            /\ effects' = <<SaveStep(books')>>
            /\ isAddDialogOpen' = FALSE
            /\ formData' = resetForm(t)
            /\ lastOp' = Op("add", TRUE, <<>>, 0, <<>>, <<>>)
            /\ UNCHANGED <<storage, editingBook, isEditDialogOpen, query, uncaught>>

handleEditBook(t) ==
    /\ Idle
    /\ isEditDialogOpen
    /\ IF editingBook = <<>> \/ DraftRejected(formData)
       THEN /\ lastOp' = Op("edit", FALSE, <<>>, 0, <<>>, <<>>)
            /\ UNCHANGED <<books, storage, effects, ui, query, uncaught>>
       ELSE /\ books' = MapEdit(books, editingBook[1], formData)
            /\ effects' = <<SaveStep(books')>>
            /\ isEditDialogOpen' = FALSE
            /\ editingBook' = <<>>
            /\ formData' = resetForm(t)
            /\ lastOp' = Op("edit", TRUE, editingBook[1].id, 0, <<>>, <<>>)
            /\ UNCHANGED <<storage, isAddDialogOpen, query, uncaught>>

\* the ids a delete may be called with: those of the collection, of the
\* seed and of the clock readings (present or not)
DeleteIds ==
    {books[i].id : i \in 1..Len(books)}
        \cup {sampleBooks[i].id : i \in 1..Len(sampleBooks)}
        \cup {NumToString(t) : t \in Clock}

handleDeleteBook(id) ==
    /\ Idle
    /\ ~isAddDialogOpen /\ ~isEditDialogOpen
    /\ books' = FilterOut(books, id)
    /\ effects' = <<SaveStep(books')>>
    /\ lastOp' = Op("delete", TRUE, id,
                    IF lastOp.op = "delete" /\ lastOp.id = id THEN 2 ELSE 1,
                    <<>>, <<>>)
    /\ UNCHANGED <<storage, ui, query, uncaught>>

\* the page is loaded again: the component is constructed anew and its
\* mount effects are committed; the slot is what the last session left
Reload(t) ==
    /\ effects = <<>> /\ events < MaxEvents /\ events' = events + 1
    /\ books' = <<>>
    /\ effects' = <<LoadStep, SaveStep(<<>>)>>
    /\ formData' = resetForm(t)
    /\ editingBook' = <<>>
    /\ isAddDialogOpen' = FALSE
    /\ isEditDialogOpen' = FALSE
    /\ searchTerm' = <<>>
    /\ filterGenre' = "Fiction"
    /\ filterStatus' = "to-read"
    /\ uncaught' = <<>>
    /\ lastOp' = Op("reload", TRUE, <<>>, 0, books, storage)
    /\ UNCHANGED storage

----------------------------------------------------------------------------
Next ==
    \/ LoadEffect
    \/ SaveEffect
    \/ Rerender
    \/ \E t \in Clock : OpenAddDialog(t)
    \/ CancelAddDialog
    \/ CancelEditDialog
    \/ \E i \in 1..Len(books) : openEditDialog(i)
    \/ \E v \in TitleInputs : ChangeTitle(v)
    \/ \E v \in AuthorInputs : ChangeAuthor(v)
    \/ \E v \in GenreInputs : ChangeGenre(v)
    \/ \E v \in StatusInputs : ChangeStatus(v)
    \/ \E v \in DescriptionInputs : ChangeDescription(v)
    \/ \E v \in YearInputs, t \in Clock : ChangeYear(v, t)
    \/ \E v \in RatingInputs : ChangeRating(v)
    \/ \E t \in Clock : handleAddBook(t)
    \/ \E t \in Clock : handleEditBook(t)
    \/ \E id \in DeleteIds : handleDeleteBook(id)
    \/ \E t \in Clock : Reload(t)

Spec == Init /\ [][Next]_vars

----------------------------------------------------------------------------
(* The derived views *)

\* mutant: the search text is compared as typed
matchesQueryCaseOfInput(book) ==
    LET matchesSearch ==
            \/ includes(toLowerCase(book.title), searchTerm)
            \/ includes(toLowerCase(book.author), searchTerm)
        matchesGenre == filterGenre = "all" \/ book.genre = filterGenre
        matchesStatus == filterStatus = "all" \/ book.status = filterStatus
    IN  matchesSearch /\ matchesGenre /\ matchesStatus

\* the predicate of books.filter(...) in filteredBooks
matchesQuery(book) ==
    LET matchesSearch ==
            \/ includes(toLowerCase(book.title), toLowerCase(searchTerm))
            \/ includes(toLowerCase(book.author), toLowerCase(searchTerm))
        matchesGenre == filterGenre = "all" \/ book.genre = filterGenre
        matchesStatus == filterStatus = "all" \/ book.status = filterStatus
    IN  matchesSearch /\ matchesGenre /\ matchesStatus

filteredBooks == SelectSeq(books, matchesQuery)

\* the four stats cards
totalBooks == Len(books)
\* mutant: the card of the books read counts the books being read
readCountOfReading == Len(SelectSeq(books, LAMBDA b : b.status = "reading"))

readCount == Len(SelectSeq(books, LAMBDA b : b.status = "read"))
readingCount == Len(SelectSeq(books, LAMBDA b : b.status = "reading"))
toReadCount == Len(SelectSeq(books, LAMBDA b : b.status = "to-read"))

\* onChange of the search input: setSearchTerm(e.target.value)
setSearchTerm(v) ==
    /\ effects = <<>>
    /\ searchTerm' = v
    /\ UNCHANGED <<books, storage, effects, ui, filterGenre, filterStatus,
                   lastOp, events, uncaught>>

\* onValueChange of the genre select
setFilterGenre(v) ==
    /\ effects = <<>>
    /\ filterGenre' = v
    /\ UNCHANGED <<books, storage, effects, ui, searchTerm, filterStatus,
                   lastOp, events, uncaught>>

\* onValueChange of the status select
setFilterStatus(v) ==
    /\ effects = <<>>
    /\ filterStatus' = v
    /\ UNCHANGED <<books, storage, effects, ui, searchTerm, filterGenre,
                   lastOp, events, uncaught>>

\* what the user types into the search box
SearchInputs ==
    {<<>>, <<"g","r","e","a","t">>, <<"F">>, <<"H","E","R">>, <<"a","b">>,
     <<"e"," ">>, <<"z">>}

GenreOptions == {"all"} \cup {genres[i] : i \in 1..Len(genres)}
StatusOptions == {"all"} \cup {statuses[i] : i \in 1..Len(statuses)}

\* the records the snapshots of the view are made of: the seed records and
\* records as handleAddBook makes them
ViewRecords ==
    {sampleBooks[i] : i \in 1..Len(sampleBooks)}
      \cup {newBook([resetForm(3) EXCEPT !.title = <<"a", "B">>,
                                         !.author = <<"b">>,
                                         !.genre = genres[1],
                                         !.status = st], 3) :
               st \in {statuses[1], statuses[3]}}

ViewSnapshots ==
    UNION {[1..n -> ViewRecords] : n \in 0..MaxView}

\* a mounted component whose collection is one of the snapshots, saved
InitView ==
    /\ books \in ViewSnapshots
    /\ storage = <<JSONstringify(books)>>
    /\ effects = <<>>
    /\ formData = resetForm(3)
    /\ editingBook = <<>>
    /\ isAddDialogOpen = FALSE
    /\ isEditDialogOpen = FALSE
    /\ searchTerm = <<>>
    /\ filterGenre = "Fiction"
    /\ filterStatus = "to-read"
    /\ lastOp = Op("mount", TRUE, <<>>, 0, <<>>, storage)
    /\ events = 0
    /\ uncaught = <<>>

NextView ==
    \/ \E v \in SearchInputs : setSearchTerm(v)
    \/ \E v \in GenreOptions : setFilterGenre(v)
    \/ \E v \in StatusOptions : setFilterStatus(v)

\* the view under every query, over every snapshot
SpecView == InitView /\ [][NextView]_vars

----------------------------------------------------------------------------
(* The store operations on their own.  handleAddBook, handleEditBook and   *)
(* handleDeleteBook read books, formData and editingBook from the render   *)
(* they close over; here they are called on every combination of these    *)
(* drawn from the sets below, those the controls of the page do not        *)
(* produce included (no record being edited, a record being edited that   *)
(* is not in the collection).                                              *)

\* the drafts a submit handler is called with
StoreDrafts ==
    {[resetForm(3) EXCEPT !.title = ti, !.author = au, !.genre = ge] :
        ti \in TitleInputs, au \in AuthorInputs,
        ge \in {""} \cup GenreInputs}

\* the values of editingBook: null, or a record
StoreEditing == {<<>>} \cup {<<b>> : b \in ViewRecords}

InitStore ==
    /\ books \in ViewSnapshots
    /\ storage = <<JSONstringify(books)>>
    /\ effects = <<>>
    /\ formData \in StoreDrafts
    /\ editingBook \in StoreEditing
    /\ isAddDialogOpen \in BOOLEAN
    /\ isEditDialogOpen \in BOOLEAN
    /\ ~(isAddDialogOpen /\ isEditDialogOpen)
    /\ searchTerm = <<>>
    /\ filterGenre = "Fiction"
    /\ filterStatus = "to-read"
    /\ lastOp = Op("mount", TRUE, <<>>, 0, <<>>, storage)
    /\ events = 0
    /\ uncaught = <<>>

NextStore ==
    \/ SaveEffect
    \/ \E t \in Clock : handleAddBook(t)
    \/ \E t \in Clock : handleEditBook(t)
    \/ \E id \in DeleteIds : handleDeleteBook(id)

SpecStore == InitStore /\ [][NextStore]_vars

----------------------------------------------------------------------------
(* The minimal variant, app/page.tsx: IndexPage keeps a list of books      *)
(* {title, author, rating?} without ids, loads it and saves it with the    *)
(* same pair of effects (no seed), and its handlers write the slot         *)
(* themselves as well.  The list is books, the slot is storage, the Sheet  *)
(* of the add form is isAddDialogOpen; the open flags of the dialogs of a  *)
(* row are false before the row is clicked and false again when its        *)
(* handler returns, and are not kept.                                      *)

\* the values a form submits: bookSchema wants title and author of two
\* characters or more
PageTitles == {<<"a", "B">>, <<"c", "d">>}
PageAuthors == {<<"b", "b">>, <<"e", "e">>}
PageValues == {[title |-> ti, author |-> au] : ti \in PageTitles,
                                               au \in PageAuthors}

\* what the slot holds when the page is opened
PageSlots ==
    {<<>>, <<CorruptText>>,
     <<JSONstringify(<<[title |-> <<"a", "B">>, author |-> <<"b", "b">>],
                       [title |-> <<"c", "d">>, author |-> <<"b", "b">>]>>)>>}

InitPage ==
    /\ books = <<>>
    /\ storage \in PageSlots
    /\ effects = <<LoadStep, SaveStep(<<>>)>>
    /\ formData = resetForm(3)
    /\ editingBook = <<>>
    /\ isAddDialogOpen = FALSE
    /\ isEditDialogOpen = FALSE
    /\ searchTerm = <<>>
    /\ filterGenre = "Fiction"
    /\ filterStatus = "to-read"
    /\ lastOp = Op("mount", TRUE, <<>>, 0, <<>>, storage)
    /\ events = 0
    /\ uncaught = <<>>

\* useEffect(() => { ... }, []) of IndexPage: no seed, and no try either
IndexPageLoadEffect ==
    /\ effects # <<>>
    /\ Head(effects).kind = "load"
    /\ IF Truthy(storage)
       THEN IF Throws(storage[1])
            THEN /\ uncaught' = <<"SyntaxError">>
                 /\ effects' = <<>>
            ELSE /\ effects' = Append(Tail(effects),
                                      RenderStep(JSONparse(storage[1])))
                 /\ UNCHANGED uncaught
       ELSE /\ effects' = Tail(effects)
            /\ UNCHANGED uncaught
    /\ UNCHANGED <<books, storage, ui, query, lastOp, events>>

\* onOpenChange of the Sheet of the add form
IndexPageSetOpen(v) ==
    /\ Idle
    /\ isAddDialogOpen # v
    /\ isAddDialogOpen' = v
    /\ UNCHANGED <<books, storage, effects, formData, editingBook,
                   isEditDialogOpen, query, uncaught, lastOp>>

\* onSubmit of AddBookForm, called by handleSubmit with valid values
AddBookForm_onSubmit(values) ==
    /\ Idle
    /\ isAddDialogOpen
    /\ Len(books) < MaxPage
    /\ books' = Append(books, values)
    /\ storage' = <<JSONstringify(books')>>
    /\ effects' = <<SaveStep(books')>>
    /\ isAddDialogOpen' = FALSE
    /\ lastOp' = Op("add", TRUE, <<>>, 0, <<>>, <<>>)
    /\ UNCHANGED <<formData, editingBook, isEditDialogOpen, query, uncaught>>

\* books.map((b) =>
\*     b.title === book.title && b.author === book.author ? values : b)
PageMapEdit(prev, book, values) ==
    [i \in 1..Len(prev) |->
        IF prev[i].title = book.title /\ prev[i].author = book.author
        THEN values ELSE prev[i]]

\* onSubmit of the EditBookForm of row i
EditBookForm_onSubmit(i, values) ==
    /\ Idle
    /\ ~isAddDialogOpen
    /\ i \in 1..Len(books)
    /\ books' = PageMapEdit(books, books[i], values)
    /\ storage' = <<JSONstringify(books')>>
    /\ effects' = <<SaveStep(books')>>
    /\ lastOp' = Op("edit", TRUE, <<>>, 0, <<>>, <<>>)
    /\ UNCHANGED <<ui, query, uncaught>>

\* books.filter((b) => b.title !== book.title && b.author !== book.author)
PageFilterOut(prev, book) ==
    SelectSeq(prev, LAMBDA b : b.title # book.title /\ b.author # book.author)

\* deleteBook of the Actions of row i
deleteBook(i) ==
    /\ Idle
    /\ ~isAddDialogOpen
    /\ i \in 1..Len(books)
    /\ books' = PageFilterOut(books, books[i])
    /\ storage' = <<JSONstringify(books')>>
    /\ effects' = <<SaveStep(books')>>
    /\ lastOp' = Op("delete", TRUE, <<>>, 0, <<>>, <<>>)
    /\ UNCHANGED <<ui, query, uncaught>>

NextPage ==
    \/ IndexPageLoadEffect
    \/ SaveEffect
    \/ Rerender
    \/ \E v \in BOOLEAN : IndexPageSetOpen(v)
    \/ \E values \in PageValues : AddBookForm_onSubmit(values)
    \/ \E i \in 1..Len(books), values \in PageValues :
           EditBookForm_onSubmit(i, values)
    \/ \E i \in 1..Len(books) : deleteBook(i)

SpecPage == InitPage /\ [][NextPage]_vars

----------------------------------------------------------------------------
(* Properties.  What the statements below compare is stated here again,    *)
(* apart from the operators that model the code.                           *)

\* property k has the same value in objects a and b; a property that is
\* absent reads as undefined
SameField(a, b, k) ==
    IF k \in DOMAIN a /\ k \in DOMAIN b THEN a[k] = b[k]
    ELSE IF k \in DOMAIN a THEN k = "rating" /\ a[k] = Undefined
    ELSE IF k \in DOMAIN b THEN k = "rating" /\ b[k] = Undefined
    ELSE TRUE

\* the same records, field for field, in the same order
SameRecords(as, bs) ==
    /\ Len(as) = Len(bs)
    /\ \A i \in 1..Len(as) : \A k \in BookFields : SameField(as[i], bs[i], k)

\* the slot holds the serialization of the collection bs
SlotHolds(slot, bs) ==
    /\ slot # <<>>
    /\ slot[1].kind = "json"
    /\ SameRecords(slot[1].val, bs)
    /\ \A i \in 1..Len(bs) : \A k \in DOMAIN slot[1].val[i] :
           ~(k = "rating" /\ slot[1].val[i][k] = Undefined)

Mutations == {"add", "edit", "delete"}

\* a step of a store operation that passed its guard
MutationStep ==
    \/ (\E t \in Clock : handleAddBook(t)) /\ lastOp'.ok
    \/ (\E t \in Clock : handleEditBook(t)) /\ lastOp'.ok
    \/ \E id \in DeleteIds : handleDeleteBook(id)

\* C1: no two records of the collection have the same id.
C1_UniqueIds ==
    \A i, j \in 1..Len(books) : i # j => books[i].id # books[j].id

\* C2 (as stated): once the handler of a successful add, update or remove
\* has returned, the durable slot holds the collection it produced.
C2_SlotReflectsOnReturn ==
    (lastOp.op \in Mutations /\ lastOp.ok) => SlotHolds(storage, books)

\* C2 (amended): a successful add, update or remove returns with the slot
\* as it was and exactly one save step pending, which carries the
\* collection the operation produced; the next step is that save step, and
\* after it the slot holds that collection.
C2_SaveStepFollows ==
    [][ /\ MutationStep =>
            /\ Len(effects') = 1
            /\ effects'[1].kind = "save"
            /\ effects'[1].snap = books'
            /\ storage' = storage
        /\ (effects # <<>> /\ lastOp.op \in Mutations) =>
            /\ effects' = <<>>
            /\ books' = books
            /\ SlotHolds(storage', books) ]_vars

C2_Witness ==
    /\ lastOp.op = "add" /\ lastOp.ok
    /\ effects = <<SaveStep(books)>>
    /\ ~SlotHolds(storage, books)

\* C3: whenever no save step is pending, the durable slot holds the
\* serialization of the whole in-memory collection (that of the mounted
\* component: an unmounted tree has none): the same records, field for
\* field, in the same order.
C3_SlotHoldsCollection ==
    (Mounted /\ effects = <<>>) => SlotHolds(storage, books)

C3_Witness ==
    /\ effects = <<>>
    /\ lastOp.op = "edit" /\ lastOp.ok
    /\ Len(books) = 2
    /\ SlotHolds(storage, books)

\* C4: a collection that was saved and then loaded by initialize comes
\* back equal to the original, field for field and in the same order.
C4_RoundTrip ==
    (lastOp.op = "reload" /\ effects = <<>>) => SameRecords(books, lastOp.mem)

\* a reloaded collection in which an update had cleared a rating and in
\* which another record has one
C4_Witness ==
    /\ lastOp.op = "reload" /\ effects = <<>>
    /\ \E i \in 1..Len(lastOp.mem) :
          /\ "rating" \in DOMAIN lastOp.mem[i]
          /\ lastOp.mem[i].rating = Undefined
          /\ "rating" \notin DOMAIN books[i]
    /\ Len(books) = 2

\* a draft with an empty title, an empty author or an empty genre
EmptyRequiredField(fd) ==
    Len(fd.title) = 0 \/ Len(fd.author) = 0 \/ fd.genre \notin GenreOptions

\* a call of the add handler on such a draft
RejectedAddStep ==
    EmptyRequiredField(formData) /\ \E t \in Clock : handleAddBook(t)

AcceptedEditStep ==
    /\ editingBook # <<>>
    /\ ~EmptyRequiredField(formData)
    /\ \E t \in Clock : handleEditBook(t)

\* C6: a successful update of a record replaces its mutable fields by the
\* patch and keeps its id, its dateAdded and its index; the length of the
\* collection and every other record are unchanged.
C6_UpdateFrame ==
    [][ AcceptedEditStep =>
            /\ Len(books') = Len(books)
            /\ \E i \in 1..Len(books) :
                  /\ books[i].id = editingBook[1].id
                  /\ books'[i].id = books[i].id
                  /\ books'[i].dateAdded = books[i].dateAdded
                  /\ \A k \in FormFields :
                        SameField(books'[i], formData, k)
                  /\ \A j \in 1..Len(books) :
                        j # i => books'[j] = books[j] ]_vars

\* the ids a second, repeated remove can be called with
AllIds ==
    {sampleBooks[i].id : i \in 1..Len(sampleBooks)}
        \cup {NumToString(t) : t \in Clock}

\* C7: remove(id) called twice in a row leaves the same collection, and
\* the same content of the slot, as remove(id) called once.
C7_IdempotentDelete ==
    [][ /\ \A id \in AllIds :
              (lastOp.op = "delete" /\ lastOp.id = id /\ handleDeleteBook(id))
                  => books' = books
        /\ (lastOp.op = "delete" /\ lastOp.rep = 2 /\ effects # <<>>)
              => storage' = storage ]_vars

\* the same id removed twice, the first call having removed a seed record
C7_Witness ==
    /\ lastOp.op = "delete" /\ lastOp.rep = 2 /\ effects = <<>>
    /\ lastOp.id = sampleBooks[1].id
    /\ Len(books) = 1 /\ books[1].id = sampleBooks[2].id

\* c and d are the same letter, in whatever case
SameLetter(c, d) ==
    c = d \/ \E k \in 1..26 : {c, d} = {UpperCase[k], LowerCase[k]}

\* text occurs in s as a run of characters, the case of letters ignored
OccursIgnoringCase(text, s) ==
    \E o \in 0..Len(s) :
        /\ o + Len(text) <= Len(s)
        /\ \A j \in 1..Len(text) : SameLetter(s[o + j], text[j])

\* the record matches the query {searchText, genre, status}
MatchesSpec(b) ==
    /\ \/ searchTerm = <<>>
       \/ OccursIgnoringCase(searchTerm, b.title)
       \/ OccursIgnoringCase(searchTerm, b.author)
    /\ filterGenre = "all" \/ filterGenre = b.genre
    /\ filterStatus = "all" \/ filterStatus = b.status

\* the records of bs that match, in the order they have in bs
RECURSIVE MatchingOf(_)
MatchingOf(bs) ==
    IF bs = <<>> THEN <<>>
    ELSE IF MatchesSpec(bs[Len(bs)])
         THEN Append(MatchingOf(SubSeq(bs, 1, Len(bs) - 1)), bs[Len(bs)])
         ELSE MatchingOf(SubSeq(bs, 1, Len(bs) - 1))

\* C8: the filtered view holds exactly the records that match the query
\* (search text empty or found, case ignored, in the title or the author;
\* genre and status the wildcard or equal), in the order of the snapshot.
C8_FilterCorrect ==
    filteredBooks = MatchingOf(books)

\* the search "great" over the seed shows the one record whose title holds
\* "Great"
C8_Witness ==
    /\ books = sampleBooks
    /\ searchTerm = <<"g","r","e","a","t">>
    /\ filterGenre = "all" /\ filterStatus = "all"
    /\ filteredBooks = <<sampleBooks[1]>>

\* how many records of the collection have status st
CountOf(st) == Cardinality({i \in 1..Len(books) : books[i].status = st})

\* C9: the summary shows total = N, readCount = r, readingCount = g and
\* toReadCount = t for a collection of N records of which r are read, g
\* reading and t to-read, and total = readCount + readingCount +
\* toReadCount.
C9_SummaryCorrect ==
    /\ totalBooks = Cardinality(DOMAIN books)
    /\ readCount = CountOf("read")
    /\ readingCount = CountOf("reading")
    /\ toReadCount = CountOf("to-read")
    /\ totalBooks = readCount + readingCount + toReadCount

\* one record of each status, the third one just added
C9_Witness ==
    /\ effects = <<>>
    /\ totalBooks = 3
    /\ readCount = 1 /\ readingCount = 1 /\ toReadCount = 1
    /\ lastOp.op = "add" /\ lastOp.ok

\* C10: when initialize finds no snapshot in the slot, the collection
\* becomes the seed, in its order, and once initialization has completed
\* the slot holds exactly the seed.
C10_SeedOnFirstUse ==
    (lastOp.op = "mount" /\ lastOp.slot = <<>>) =>
        /\ effects # <<>> /\ Head(effects).kind = "load" => books = <<>>
        /\ effects = <<>> \/ Head(effects) = SaveStep(sampleBooks) =>
               books = sampleBooks
        /\ effects = <<>> => SlotHolds(storage, sampleBooks)

C10_Witness ==
    /\ lastOp.op = "mount" /\ lastOp.slot = <<>>
    /\ effects = <<>>
    /\ Len(books) = 2
    /\ SlotHolds(storage, books)

\* initialization was started on a slot whose content is not JSON
InitOnCorruptSlot ==
    /\ lastOp.op \in {"mount", "reload"}
    /\ lastOp.slot # <<>>
    /\ lastOp.slot[1].kind = "corrupt"

\* C11: when initialization runs on a slot whose content is not a
\* well-formed snapshot, it completes without an error state: the
\* collection is empty or the seed, the corrupt content is gone from the
\* slot, and no failure reaches the user.
C11_CorruptSlotRecovered ==
    (InitOnCorruptSlot /\ effects = <<>>) =>
        /\ uncaught = <<>>
        /\ books = <<>> \/ books = sampleBooks
        /\ storage # <<>> /\ storage[1].kind = "json"

\* the records of after are records of before (the same id and dateAdded),
\* in the order they have in before
RECURSIVE KeepsOrder(_, _)
KeepsOrder(after, before) ==
    IF after = <<>> THEN TRUE
    ELSE IF before = <<>> THEN FALSE
    ELSE IF /\ after[1].id = before[1].id
            /\ after[1].dateAdded = before[1].dateAdded
         THEN KeepsOrder(Tail(after), Tail(before))
         ELSE KeepsOrder(after, Tail(before))

\* the records of bs that were there before the step (an add puts one more
\* behind them)
Survivors(after, before) ==
    IF Len(after) > Len(before) THEN SubSeq(after, 1, Len(before)) ELSE after

\* C12: a successful add lengthens the collection by one, puts the new
\* record (id taken at the add, dateAdded the day of the add, the other
\* fields those of the draft) last and leaves every earlier record as it
\* was at its index; and every add, update and remove leaves the surviving
\* records in the order they had.
C12_AddAppends ==
    [][ /\ \A t \in Clock :
              (~EmptyRequiredField(formData) /\ handleAddBook(t)) =>
                  /\ Len(books') = Len(books) + 1
                  /\ \A i \in 1..Len(books) : books'[i] = books[i]
                  /\ LET added == books'[Len(books) + 1]
                     IN  /\ added.id = NumToString(t)
                         /\ added.dateAdded = t \div 86400000
                         /\ \A k \in FormFields :
                                SameField(added, formData, k)
        /\ MutationStep => KeepsOrder(Survivors(books', books), books) ]_vars

\* a record added behind the two seed records
C12_Witness ==
    /\ lastOp.op = "add" /\ lastOp.ok
    /\ Len(books) = 3
    /\ books[1] = sampleBooks[1] /\ books[2] = sampleBooks[2]
    /\ books[3].title = <<"a", "B">> /\ books[3].id \in {<<"3">>, <<"4">>}

\* a call of the update handler with no record being edited, with a
\* record being edited whose id no record of the collection has, or with a
\* draft whose title, author or genre is empty
RejectableEditStep ==
    /\ \/ editingBook = <<>>
       \/ \A i \in 1..Len(books) : books[i].id # editingBook[1].id
       \/ EmptyRequiredField(formData)
    /\ \E t \in Clock : handleEditBook(t)

RECURSIVE Without(_, _)
Without(bs, id) ==
    IF bs = <<>> THEN <<>>
    ELSE IF bs[1].id = id THEN Without(Tail(bs), id)
         ELSE <<bs[1]>> \o Without(Tail(bs), id)

\* C14: remove(id) leaves no record with that id and leaves every record
\* with another id in the collection, unchanged and in the same order;
\* when no record has the id the collection is unchanged; no error is
\* raised either way.
C14_RemoveFrame ==
    [][ \A id \in DeleteIds :
            handleDeleteBook(id) =>
                /\ \A i \in 1..Len(books') : books'[i].id # id
                /\ books' = Without(books, id)
                /\ (\A i \in 1..Len(books) : books[i].id # id)
                       => books' = books
                /\ uncaught' = <<>>
                /\ lastOp'.ret = "undefined" ]_vars

\* the second of three records has been removed
C14_Witness ==
    /\ lastOp.op = "delete" /\ lastOp.id = sampleBooks[2].id
    /\ Len(books) = 2
    /\ books[1] = sampleBooks[1]
    /\ books[2].title = <<"a", "B">>

\* a step of working on a draft: a dialog is opened, an input of the open
\* dialog is changed, or the dialog is closed by Cancel
DraftStep ==
    \/ \E t \in Clock : OpenAddDialog(t)
    \/ \E i \in 1..Len(books) : openEditDialog(i)
    \/ SetDraft(formData')
    \/ CancelAddDialog
    \/ CancelEditDialog

\* C15: opening the add or the edit dialog, changing fields of the draft
\* and closing the dialog without submitting leave the collection and the
\* slot as they were: none of these steps changes either, or leaves a save
\* step pending.
C15_DiscardKeepsStore ==
    [][ DraftStep =>
            /\ books' = books
            /\ storage' = storage
            /\ effects' = effects ]_vars

\* on the seed: the edit dialog was opened, the title of the draft was
\* changed and the dialog was closed by Cancel
C15_Witness ==
    /\ lastOp.op = "mount" /\ lastOp.slot = <<>>
    /\ ~isAddDialogOpen /\ ~isEditDialogOpen
    /\ editingBook # <<>>
    /\ formData.title = <<"a", "B">>
    /\ books = sampleBooks
    /\ SlotHolds(storage, sampleBooks)

\* C16: every record of the collection has a non-empty title, a non-empty
\* author and a non-empty genre, whatever adds, updates and removes were
\* attempted, with whatever drafts, on the seed or on a loaded snapshot
\* whose records have them.
C16_RequiredFieldsNonEmpty ==
    \A i \in 1..Len(books) :
        /\ Len(books[i].title) > 0
        /\ Len(books[i].author) > 0
        /\ books[i].genre \in {genres[k] : k \in 1..Len(genres)}

\* an update whose draft has an empty title has just been turned down
C16_Witness ==
    /\ lastOp.op = "edit" /\ ~lastOp.ok
    /\ isEditDialogOpen
    /\ formData.title = <<>>
    /\ Len(books) = 2

\* initialization was started on a slot that holds a saved snapshot of at
\* least one record, and the loaded collection is not yet in memory
LoadingSavedSnapshot ==
    /\ lastOp.op \in {"mount", "reload"}
    /\ lastOp.slot # <<>>
    /\ lastOp.slot[1].kind = "json"
    /\ lastOp.slot[1].val # <<>>
    /\ effects # <<>>
    /\ Head(effects).kind \in {"load", "save", "render"}
    /\ books = <<>>

\* C17: from the start of an initialization on a saved, non-empty snapshot
\* to the point where the loaded collection is in memory, the slot holds
\* that snapshot: the save step of the mount does not write the initial
\* empty list over it.
C17_SnapshotKeptWhileLoading ==
    LoadingSavedSnapshot => storage = lastOp.slot

\* the records of bs that differ from sel in title or in author, in the
\* order they have in bs
RECURSIVE OthersOf(_, _)
OthersOf(bs, sel) ==
    IF bs = <<>> THEN <<>>
    ELSE IF bs[1].title = sel.title /\ bs[1].author = sel.author
         THEN OthersOf(Tail(bs), sel)
         ELSE <<bs[1]>> \o OthersOf(Tail(bs), sel)

\* C18: in the minimal variant, deleting a book leaves every book that
\* differs from it in title or in author in the list and in the slot,
\* unchanged and in the same order.
C18_DeleteOnlySelected ==
    [][ \A i \in 1..Len(books) :
            deleteBook(i) =>
                /\ OthersOf(books', books[i]) = OthersOf(books, books[i])
                /\ storage' # <<>> /\ storage'[1].kind = "json"
                /\ SameRecords(OthersOf(storage'[1].val, books[i]),
                               OthersOf(books, books[i])) ]_vars

\* initialization has completed and no store operation was called since
JustInitialized ==
    /\ lastOp.op \in {"mount", "reload"}
    /\ Mounted
    /\ effects = <<>>

\* C19: right after initialization, the search text and the two filters
\* not yet changed by the user, the query matches every record: the
\* filtered view is the whole collection, and after a first-time
\* initialization it shows every seed record.
C19_InitialQueryMatchesAll ==
    JustInitialized =>
        /\ filteredBooks = books
        /\ lastOp.slot = <<>> => filteredBooks = sampleBooks

====
